---- MODULE Spec2Model ----
(***************************************************************************)
(* examples/applies.py: the batch pipeline that reads (user, job, applies) *)
(* rows, builds the job x user matrix, fits a model from the MODELS        *)
(* registry and writes either the similar-jobs report or the per-user      *)
(* recommendation report.                                                  *)
(***************************************************************************)
EXTENDS Integers, Sequences, FiniteSets, TLC

(* ------------------------------ bounds -------------------------------- *)
\* longest input file, in rows
MaxRecords == 3
\* longest list a fitted model returns from similar_items / recommend
MaxRet == 2
\* number of output-line writes that may fail in one run
MaxFaults == 1

(* ------------------------- program constants -------------------------- *)
\* model.similar_items(jid, 11)
TopN == 11

(* --------------------------- input alphabet --------------------------- *)
Users == {"u1", "u2"}
\* "1" and "2" are all-digit fields; "a" is not
Jobs == {"1", "2", "a"}
\* text of the third field: a number, or a missing/malformed count
CountTexts == {"1", ""}

\* sorted order of the labels, as pandas sorts the categories of a column
\* (numeric order for an int64 column, lexicographic for a string column;
\* both agree on these labels)
UserSort == <<"u1", "u2">>
JobSort == <<"1", "2", "a">>

Min(a, b) == IF a < b THEN a ELSE b
Range(s) == {s[i] : i \in 1..Len(s)}
SeqsUpTo(S, n) == UNION {[1..k -> S] : k \in 1..n}

Rows == [user : Users, job : Jobs, applies : CountTexts]
Files == SeqsUpTo(Rows, MaxRecords)

NoMatrix == [shape |-> <<0, 0>>, ent |-> <<>>, weight |-> "none", fmt |-> "none"]
NoModel == [cls |-> "none", params |-> {}, approximate_recommend |-> "unset",
            fitted |-> FALSE, depth |-> 0]

(* ------------------------------ registry ------------------------------ *)
MODELS == [als |-> "AlternatingLeastSquares",
           nmslib_als |-> "NMSLibAlternatingLeastSquares",
           annoy_als |-> "AnnoyAlternatingLeastSquares",
           faiss_als |-> "FaissAlternatingLeastSquares",
           tfidf |-> "TFIDFRecommender",
           cosine |-> "CosineRecommender",
           bpr |-> "BayesianPersonalizedRanking",
           bm25 |-> "BM25Recommender"]

\* --model values tried: the registry's names and one that is not in it
ModelNames == DOMAIN MODELS \cup {"lmf"}

\* issubclass(cls, AlternatingLeastSquares): the class itself and the three
\* approximate variants imported from implicit.approximate_als
ALSFamily == {"AlternatingLeastSquares", "NMSLibAlternatingLeastSquares",
              "AnnoyAlternatingLeastSquares", "FaissAlternatingLeastSquares"}

\* a variant of get_model that falls back to the default class for a name
\* that is not in the registry
get_model_lenient(model_name) ==
    [ok |-> TRUE,
     model |-> [cls |-> IF model_name \in DOMAIN MODELS THEN MODELS[model_name]
                        ELSE MODELS["als"],
                params |-> {}, approximate_recommend |-> "default",
                fitted |-> FALSE, depth |-> 0]]

\* get_model: the registry lookup, then the per-variant default parameters
get_model(model_name) ==
    IF model_name \notin DOMAIN MODELS
    THEN [ok |-> FALSE, model |-> NoModel]
    ELSE [ok |-> TRUE,
          model |-> [cls |-> MODELS[model_name],
                     params |->
                        IF MODELS[model_name] \in ALSFamily
                        THEN {<<"factors", "64">>, <<"dtype", "float32">>,
                              <<"use_gpu", "False">>}
                        ELSE IF model_name = "bm25"
                        THEN {<<"K1", "100">>, <<"B", "0.5">>}
                        ELSE IF model_name = "bpr"
                        THEN {<<"factors", "63">>, <<"use_gpu", "False">>}
                        ELSE {},
                     approximate_recommend |-> "default",
                     fitted |-> FALSE, depth |-> 0]]

(* ----------------------------- read_data ------------------------------ *)
\* astype("category"): the distinct labels of a column, sorted
Categories(sort, present) == SelectSeq(sort, LAMBDA x : x \in present)
\* .cat.codes: position of a label among the categories, from 0
CodeOf(cats, label) == (CHOOSE i \in 1..Len(cats) : cats[i] = label) - 1

\* a variant of the conversion that gives a count that is no number a
\* default value
astype_float32_default(text) ==
    IF text = "1" THEN [ok |-> TRUE, v |-> 1] ELSE [ok |-> TRUE, v |-> 1]

\* astype(numpy.float32) of one field of the count column: the number, or
\* ValueError for a text that is no number (na_filter=False keeps a missing
\* field as the empty string)
astype_float32(text) ==
    IF text = "1" THEN [ok |-> TRUE, v |-> 1] ELSE [ok |-> FALSE, v |-> 0]

Convertible(file) == \A i \in 1..Len(file) : astype_float32(file[i].applies).ok

UserCats(file) == Categories(UserSort, {file[i].user : i \in 1..Len(file)})
JobCats(file) == Categories(JobSort, {file[i].job : i \in 1..Len(file)})

\* the job column is parsed as int64 when every field is all digits, and is
\* a column of strings otherwise
Numeric == {"1", "2"}
IntLabel == ("1" :> 1) @@ ("2" :> 2)
JobDtype(file) ==
    IF \A i \in 1..Len(file) : file[i].job \in Numeric THEN "int64" ELSE "object"

MaxOf(s) == CHOOSE m \in Range(s) : \A x \in Range(s) : x <= m

\* coo_matrix((data, (row, col))): one stored entry per row of the file, the
\* shape inferred as the largest index plus one in each dimension
coo_matrix(data, row, col) ==
    [shape |-> <<MaxOf(row) + 1, MaxOf(col) + 1>>,
     ent |-> [i \in 1..Len(data) |-> [row |-> row[i], col |-> col[i], data |-> data[i]]],
     weight |-> "raw", fmt |-> "coo"]

\* a variant of read_data that passes (user codes, job codes) to coo_matrix
read_data_swapped(file) ==
    [df |-> [rows |-> file, user_cats |-> UserCats(file), job_cats |-> JobCats(file),
             job_dtype |-> JobDtype(file)],
     applies |-> coo_matrix([i \in 1..Len(file) |-> astype_float32(file[i].applies).v],
                            [i \in 1..Len(file) |-> CodeOf(UserCats(file), file[i].user)],
                            [i \in 1..Len(file) |-> CodeOf(JobCats(file), file[i].job)])]

\* read_data on a file whose counts all convert: the frame with its two
\* categorical columns, and the job x user matrix of the counts
read_data(file) ==
    [df |-> [rows |-> file, user_cats |-> UserCats(file), job_cats |-> JobCats(file),
             job_dtype |-> JobDtype(file)],
     applies |-> coo_matrix([i \in 1..Len(file) |-> astype_float32(file[i].applies).v],
                            [i \in 1..Len(file) |-> CodeOf(JobCats(file), file[i].job)],
                            [i \in 1..Len(file) |-> CodeOf(UserCats(file), file[i].user)])]

(* --------------------------- sparse matrices -------------------------- *)
RECURSIVE SumData(_, _, _, _)
SumData(ent, r, c, i) ==
    IF i = 0 THEN 0
    ELSE SumData(ent, r, c, i - 1)
         + (IF ent[i].row = r /\ ent[i].col = c THEN ent[i].data ELSE 0)

\* the cells of a shape in row-major order
CellsOf(shape) ==
    [k \in 1..(shape[1] * shape[2]) |->
        <<(k - 1) \div shape[2], (k - 1) % shape[2]>>]

Stored(m) == {<<m.ent[i].row, m.ent[i].col>> : i \in 1..Len(m.ent)}

\* .tocsr(): entries in row-major order, duplicate cells summed into one
\* stored entry (a stored entry stays stored whatever its value)
tocsr(m) ==
    LET cells == SelectSeq(CellsOf(m.shape), LAMBDA rc : rc \in Stored(m))
    IN [shape |-> m.shape,
        ent |-> [k \in 1..Len(cells) |->
                   [row |-> cells[k][1], col |-> cells[k][2],
                    data |-> SumData(m.ent, cells[k][1], cells[k][2], Len(m.ent))]],
        weight |-> m.weight, fmt |-> "csr"]

\* .T
transpose(m) ==
    [shape |-> <<m.shape[2], m.shape[1]>>,
     ent |-> [k \in 1..Len(m.ent) |->
                [row |-> m.ent[k].col, col |-> m.ent[k].row, data |-> m.ent[k].data]],
     weight |-> m.weight, fmt |-> "csc"]

\* a variant of indices that loses the last stored entry of the row
indices_short(m, r) ==
    LET row == SelectSeq(m.ent, LAMBDA e : e.row = r)
    IN [k \in 1..(Len(row) - 1) |-> row[k].col]

\* m[r].indices: the column indices stored in row r, in storage order
indices(m, r) ==
    LET row == SelectSeq(m.ent, LAMBDA e : e.row = r)
    IN [k \in 1..Len(row) |-> row[k].col]

\* bm25_weight(X, K1, B): same shape, same stored cells, every value rescaled
\* (the weight tag marks the values as the rescaled ones)
bm25_weight(X, K1, B) ==
    [shape |-> X.shape, ent |-> X.ent, weight |-> "bm25", fmt |-> "coo"]

(* ------------------------- the model's queries ------------------------ *)
\* similar_items(jid, N) of a fitted model: at most N (code, score) pairs by
\* descending score, the queried item first
similar_items(m, n_items, jid, N) ==
    LET len == Min(Min(N, m.depth), n_items)
    IN [p \in 1..len |-> <<(jid + p - 1) % n_items, len - p + 1>>]

\* recommend(userid, user_items) of a fitted model: (code, score) pairs by
\* descending score
recommend(m, n_items, userid, user_items) ==
    LET len == Min(m.depth, n_items)
    IN [p \in 1..len |-> <<n_items - p, len - p + 1>>]

(* ------------------------------- state -------------------------------- *)
VARIABLES
    args,          \* the parsed command line: recommend, model, param
    pc,            \* where the run is
    err,           \* the exception that ended the run, "" if none
    reads,         \* number of times the input file was opened for reading
    input,         \* the rows read from the input file, <<>> before the read
    df,            \* the frame read_data returned
    applies,       \* the matrix, as the function's local variable holds it
    model,         \* the model instance
    fit_calls,     \* the arguments of every model.fit call
    jobs,          \* dict(enumerate(df['job'].cat.categories))
    to_generate,   \* similarity mode: the job codes in visiting order
    user_applies,  \* recommendation mode: applies.T.tocsr()
    out,           \* the output file: created by this run or not, its lines
    idx,           \* position of the report loop
    calls,         \* every similar_items / recommend query made
    faults         \* writes that may still fail in this run

vars == <<args, pc, err, reads, input, df, applies, model, fit_calls, jobs,
          to_generate, user_applies, out, idx, calls, faults>>

NoFrame == [rows |-> <<>>, user_cats |-> <<>>, job_cats |-> <<>>, job_dtype |-> "none"]

\* --param values tried: absent, or one KEY=VALUE
Params == {<<>>, << <<"factors", "32">> >>}

Init ==
    /\ args \in [recommend : BOOLEAN, model : ModelNames, param : Params]
    /\ pc = "start"
    /\ err = ""
    /\ reads = 0
    /\ input = <<>>
    /\ df = NoFrame
    /\ applies = NoMatrix
    /\ model = NoModel
    /\ fit_calls = <<>>
    /\ jobs = <<>>
    /\ to_generate = <<>>
    /\ user_applies = NoMatrix
    /\ out = [created |-> FALSE, lines |-> <<>>]
    /\ idx = 0
    /\ calls = <<>>
    /\ faults = MaxFaults

Raise(e) == pc' = "failed" /\ err' = e

(* ---------------------- read_data(input_filename) --------------------- *)
\* pandas.read_csv fails on an unreadable file; astype(numpy.float32) fails
\* on a count that is not a number; otherwise the frame and the matrix
ReadData ==
    /\ pc = "start"
    /\ reads' = reads + 1
    /\ \/ /\ Raise("IOError")
          /\ UNCHANGED <<input, df, applies>>
       \/ \E file \in Files :
            /\ input' = file
            /\ IF Convertible(file)
                  THEN /\ df' = read_data(file).df
                    /\ applies' = read_data(file).applies
                    /\ pc' = "loaded"
                    /\ err' = err
               ELSE /\ Raise("ValueError: could not convert string to float")
                    /\ UNCHANGED <<df, applies>>
    /\ UNCHANGED <<args, model, fit_calls, jobs, to_generate, user_applies,
                   out, idx, calls, faults>>

(* ------------------------ get_model(model_name) ----------------------- *)
GetModel ==
    /\ pc = "loaded"
    /\ IF get_model(args.model).ok
       THEN /\ model' = get_model(args.model).model
            /\ pc' = "selected"
            /\ err' = err
       ELSE /\ Raise("ValueError: Unknown Model")
            /\ model' = model
    /\ UNCHANGED <<args, reads, input, df, applies, fit_calls, jobs, to_generate,
                   user_applies, out, idx, calls, faults>>

(* -------------------- weighting, then applies.tocsr() ------------------ *)
\* a variant that weights whatever the model is
weigh_always(m, X) ==
    [model |-> [m EXCEPT !.approximate_recommend = "False"],
     applies |-> tocsr(bm25_weight(X, 100, "0.8"))]

\* an ALS based model gets the matrix weighted by bm25_weight(K1=100, B=0.8)
\* and its approximate_recommend set to False; then applies.tocsr()
weigh(m, X) ==
    IF m.cls \in ALSFamily
    THEN [model |-> [m EXCEPT !.approximate_recommend = "False"],
          applies |-> tocsr(bm25_weight(X, 100, "0.8"))]
    ELSE [model |-> m, applies |-> tocsr(X)]

Weigh ==
    /\ pc = "selected"
    /\ model' = weigh(model, applies).model
    /\ applies' = weigh(model, applies).applies
    /\ pc' = "ready"
    /\ UNCHANGED <<args, err, reads, input, df, fit_calls, jobs, to_generate,
                   user_applies, out, idx, calls, faults>>

(* --------------------------- model.fit(applies) ----------------------- *)
\* fit either trains the model (what its queries return is fixed from then
\* on) or raises
Fit ==
    /\ pc = "ready"
    /\ fit_calls' = Append(fit_calls,
                           [matrix |-> applies,
                            approximate_recommend |-> model.approximate_recommend])
    /\ \/ \E d \in 0..MaxRet :
            /\ model' = [model EXCEPT !.fitted = TRUE, !.depth = d]
            /\ pc' = "fitted"
            /\ err' = err
       \/ /\ Raise("TrainingFailure")
          /\ model' = model
    /\ UNCHANGED <<args, reads, input, df, applies, jobs, to_generate, user_applies,
                   out, idx, calls, faults>>

(* ------------------- similarity mode: the visiting order --------------- *)
\* df.groupby('job').size(): per category, in category order, the number of
\* rows of that job
user_count(frame) ==
    [k \in 1..Len(frame.job_cats) |->
        Cardinality({i \in 1..Len(frame.rows) : frame.rows[i].job = frame.job_cats[k]})]

\* What user_count[x] does with an int x depends on the index and on the
\* pandas release: an index of strings is read by position; an index of
\* ints is read by label, and for an int that is no label either by
\* position (older releases) or not at all (KeyError).
PandasLookups == {"label_then_position", "label_only"}

Labelled(frame, x) ==
    {k \in 1..Len(frame.job_cats) : IntLabel[frame.job_cats[k]] = x}

\* user_count[x]
lookup(frame, x, lib) ==
    IF frame.job_dtype = "int64"
    THEN IF Labelled(frame, x) # {}
         THEN [ok |-> TRUE, v |-> user_count(frame)[CHOOSE k \in Labelled(frame, x) : TRUE]]
         ELSE IF lib = "label_then_position"
              THEN [ok |-> TRUE, v |-> user_count(frame)[x + 1]]
              ELSE [ok |-> FALSE, v |-> 0]
    ELSE [ok |-> TRUE, v |-> user_count(frame)[x + 1]]

\* sorted(xs, key=...): ascending by key, equal keys in their order in xs
sorted(xs, key) ==
    LET n == Len(xs)
        p == CHOOSE q \in [1..n -> 1..n] :
                /\ \A i, j \in 1..n : i # j => q[i] # q[j]
                /\ \A i, j \in 1..n :
                     i < j => \/ key[xs[q[i]]] < key[xs[q[j]]]
                              \/ key[xs[q[i]]] = key[xs[q[j]]] /\ q[i] < q[j]
    IN [i \in 1..n |-> xs[p[i]]]

\* list(jobs): the job codes, ascending
Codes(n) == [i \in 1..n |-> i - 1]

\* to_generate = sorted(list(jobs), key=lambda x: -user_count[x])
plan_similar(frame, lib) ==
    LET n == Len(frame.job_cats)
    IN IF \E x \in 0..(n - 1) : ~lookup(frame, x, lib).ok
       THEN [ok |-> FALSE, to_generate |-> <<>>]
       ELSE [ok |-> TRUE,
             to_generate |->
                sorted(Codes(n), [x \in 0..(n - 1) |-> 0 - lookup(frame, x, lib).v])]

PlanSimilar ==
    /\ pc = "fitted"
    /\ ~args.recommend
    /\ jobs' = df.job_cats
    /\ \E lib \in PandasLookups :
         IF plan_similar(df, lib).ok
         THEN /\ to_generate' = plan_similar(df, lib).to_generate
              /\ pc' = "planned"
              /\ err' = err
         ELSE /\ Raise("KeyError")
              /\ to_generate' = to_generate
    /\ UNCHANGED <<args, reads, input, df, applies, model, fit_calls, user_applies,
                   out, idx, calls, faults>>

(* ------------------ recommendation mode: the user rows ----------------- *)
PlanRecommend ==
    /\ pc = "fitted"
    /\ args.recommend
    /\ jobs' = df.job_cats
    /\ user_applies' = tocsr(transpose(applies))
    /\ pc' = "planned"
    /\ UNCHANGED <<args, err, reads, input, df, applies, model, fit_calls,
                   to_generate, out, idx, calls, faults>>

(* ----------------- codecs.open(output_filename, "w") ------------------ *)
\* a variant that opens the output file on entry, before the input is read
OpenOutputEarly ==
    /\ pc = "start"
    /\ ~out.created
    /\ out' = [created |-> TRUE, lines |-> <<>>]
    /\ UNCHANGED <<args, pc, err, reads, input, df, applies, model, fit_calls,
                   jobs, to_generate, user_applies, idx, calls, faults>>

\* the file is opened for writing (created or truncated) once the model is
\* fitted and the visiting order or the user rows are computed
OpenOutput ==
    /\ pc = "planned"
    /\ out' = [created |-> TRUE, lines |-> <<>>]
    /\ idx' = 0
    /\ pc' = "writing"
    /\ UNCHANGED <<args, err, reads, input, df, applies, model, fit_calls, jobs,
                   to_generate, user_applies, calls, faults>>

(* ------------------------------ the lines ------------------------------ *)
SimLine(job, other, score) == [kind |-> "sim", a |-> job, b |-> other, score |-> score]
RecLine(user, job, score) == [kind |-> "rec", a |-> user, b |-> job, score |-> score]
SepLine(user) == [kind |-> "sep", a |-> user, b |-> "", score |-> 0]
HistLine(job) == [kind |-> "hist", a |-> "", b |-> job, score |-> 0]

\* the elements of s whose position is not in F, in order
Without(s, F) ==
    LET keep == SelectSeq([i \in 1..Len(s) |-> i], LAMBDA i : i \notin F)
    IN [k \in 1..Len(keep) |-> s[keep[k]]]

(* --------------- similarity mode: one job of to_generate --------------- *)
\* the lines of one job: one per (other, score) similar_items returned
sim_lines(labels, jid, result) ==
    [p \in 1..Len(result) |->
        SimLine(labels[jid + 1], labels[result[p][1] + 1], result[p][2])]

\* every write sits in try/except-pass: a line whose write fails is dropped
\* and the loop goes on
SimilarStep ==
    /\ pc = "writing"
    /\ ~args.recommend
    /\ idx < Len(to_generate)
    /\ LET jid == to_generate[idx + 1]
           result == similar_items(model, Len(jobs), jid, TopN)
           lines == sim_lines(jobs, jid, result)
       IN /\ calls' = Append(calls, [q |-> jid, result |-> result])
          /\ \E F \in SUBSET (1..Len(lines)) :
               /\ Cardinality(F) <= faults
               /\ faults' = faults - Cardinality(F)
               /\ out' = [out EXCEPT !.lines = out.lines \o Without(lines, F)]
    /\ idx' = idx + 1
    /\ UNCHANGED <<args, pc, err, reads, input, df, applies, model, fit_calls, jobs,
                   to_generate, user_applies>>

(* ------------- recommendation mode: one user of the table -------------- *)
\* a variant that writes the marker line before the recommendations
user_block_marker_first(username, labels, result, history) ==
    <<SepLine(username)>>
    \o [p \in 1..Len(result) |-> RecLine(username, labels[result[p][1] + 1], result[p][2])]
    \o [k \in 1..Len(history) |-> HistLine(labels[history[k] + 1])]

\* the lines of one user: the recommendations, the marker line, then one
\* line per job stored in the user's row
user_block(username, labels, result, history) ==
    [p \in 1..Len(result) |-> RecLine(username, labels[result[p][1] + 1], result[p][2])]
    \o <<SepLine(username)>>
    \o [k \in 1..Len(history) |-> HistLine(labels[history[k] + 1])]

\* no write is guarded here: a write that fails ends the run, the file
\* keeping the lines written before it
RecommendStep ==
    /\ pc = "writing"
    /\ args.recommend
    /\ idx < Len(df.user_cats)
    /\ LET userid == idx
           username == df.user_cats[userid + 1]
           result == recommend(model, Len(jobs), userid, user_applies)
           block == user_block(username, jobs, result, indices(user_applies, userid))
       IN /\ calls' = Append(calls, [q |-> userid, result |-> result])
          /\ \/ /\ out' = [out EXCEPT !.lines = out.lines \o block]
                /\ idx' = idx + 1
                /\ UNCHANGED <<pc, err, faults>>
             \/ \E f \in 1..Len(block) :
                  /\ faults > 0
                  /\ faults' = faults - 1
                  /\ out' = [out EXCEPT !.lines = out.lines \o SubSeq(block, 1, f - 1)]
                  /\ Raise("WriteError")
                  /\ idx' = idx
    /\ UNCHANGED <<args, reads, input, df, applies, model, fit_calls, jobs,
                   to_generate, user_applies>>

(* --------------------- the with block is left ------------------------- *)
Entities == IF args.recommend THEN Len(df.user_cats) ELSE Len(to_generate)

Close ==
    /\ pc = "writing"
    /\ idx = Entities
    /\ pc' = "done"
    /\ UNCHANGED <<args, err, reads, input, df, applies, model, fit_calls, jobs,
                   to_generate, user_applies, out, idx, calls, faults>>

Next ==
    \/ ReadData
    \/ GetModel
    \/ Weigh
    \/ Fit
    \/ PlanSimilar
    \/ PlanRecommend
    \/ OpenOutput
    \/ SimilarStep
    \/ RecommendStep
    \/ Close

Spec == Init /\ [][Next]_vars

(* ======================================================================= *)
(*                               properties                                *)
(* ======================================================================= *)
UnknownModel == args.model \notin DOMAIN MODELS
InputErrors == {"IOError", "ValueError: could not convert string to float"}
Malformed(file) == \E i \in 1..Len(file) : file[i].applies # "1"

\* C1 (as stated): a run whose model name is not in the registry never reads
\* the input file, and when it has failed it has failed with the
\* unknown-model error.
C1_UnknownModelFailsBeforeRead ==
    UnknownModel =>
        /\ reads = 0
        /\ (pc = "failed" => err = "ValueError: Unknown Model")

\* C1 (amended): a run whose model name is not in the registry raises the
\* unknown-model error only after the input file has been read, once and
\* completely; a run whose input cannot be read or converted ends with that
\* input error instead; either way no model is built, fit is never called
\* and the output file is not created.
C1_UnknownModelFailsAfterRead ==
    UnknownModel =>
        /\ pc \in {"start", "loaded", "failed"}
        /\ (pc = "failed" =>
              \/ err = "ValueError: Unknown Model" /\ reads = 1 /\ df # NoFrame
                   /\ df.rows = input /\ input # <<>>
              \/ err \in InputErrors /\ reads = 1 /\ df = NoFrame)
        /\ model = NoModel
        /\ fit_calls = <<>>
        /\ ~out.created

C1_Witness ==
    UnknownModel /\ pc = "failed" /\ err = "ValueError: Unknown Model" /\ reads = 1

\* C2: in both modes the output file is created only after the input was
\* read, the model selected and model.fit returned; a run that has ended
\* with an unknown model name, an unreadable or unconvertible input or a
\* training failure has not created the output file and has written no line.
C2_OutputOnlyAfterFit ==
    /\ out.created =>
          /\ reads = 1 /\ df # NoFrame
          /\ model # NoModel /\ model.fitted
          /\ Len(fit_calls) = 1
    /\ (pc = "failed" /\ err \in InputErrors \cup {"ValueError: Unknown Model",
                                                   "TrainingFailure"}) =>
          ~out.created /\ out.lines = <<>>

C2_Witness == out.created /\ pc = "done" /\ model.fitted /\ out.lines # <<>>

\* the number of input rows whose job is the one a code stands for
Popularity(code) ==
    Cardinality({i \in 1..Len(df.rows) : df.rows[i].job = df.job_cats[code + 1]})

\* C3: in similarity mode a finished run has queried similar_items once for
\* every job code, in order of non-increasing popularity (the number of input
\* rows of the job the code stands for), equally popular jobs in ascending
\* code order.
C3_VisitsByPopularity ==
    (~args.recommend /\ pc = "done") =>
        /\ Len(calls) = Len(df.job_cats)
        /\ \A i \in 1..Len(calls) : calls[i].q \in 0..(Len(df.job_cats) - 1)
        /\ \A i, j \in 1..Len(calls) :
             i < j => \/ Popularity(calls[i].q) > Popularity(calls[j].q)
                      \/ /\ Popularity(calls[i].q) = Popularity(calls[j].q)
                         /\ calls[i].q < calls[j].q

(* ---------------- reading the recommendation report back --------------- *)
SepsBefore(p) == Cardinality({q \in 1..(p - 1) : out.lines[q].kind = "sep"})
SepsOf(u) == {p \in 1..Len(out.lines) : out.lines[p] = SepLine(u)}
\* the labels on the history lines after position p, up to the next marker
HistoryAfter(p) ==
    {out.lines[q].b : q \in {r \in (p + 1)..Len(out.lines) :
                                /\ out.lines[r].kind = "hist"
                                /\ SepsBefore(r) = SepsBefore(p) + 1}}
JobsOfUser(u) == {input[i].job : i \in {k \in 1..Len(input) : input[k].user = u}}
UsersOfInput == {input[i].user : i \in 1..Len(input)}

\* C4: in recommendation mode, in the finished report every user of the input
\* has exactly one marker line, and the labels on the history lines after it
\* are exactly the jobs of that user's input rows.
C4_HistoryMatchesInput ==
    (args.recommend /\ pc = "done") =>
        \A u \in UsersOfInput :
            /\ Cardinality(SepsOf(u)) = 1
            /\ \A p \in SepsOf(u) : HistoryAfter(p) = JobsOfUser(u)

\* a finished BM25-weighted run over two users, one of them with the same
\* (user, job) row twice
C4_Witness ==
    /\ args.recommend /\ pc = "done"
    /\ applies.weight = "bm25"
    /\ Cardinality(UsersOfInput) = 2
    /\ Len(applies.ent) < Len(input)

\* C5 (as stated): a run does not fail on an input with a missing or
\* malformed count; loading goes on.
C5_MalformedCountNeverFails ==
    Malformed(input) => pc # "failed"

\* C5 (amended): read_data fails on an input with a count that is missing or
\* no number: the conversion to float32 raises, the run ends there, with no
\* frame and no matrix returned, no model built, no fit and no output file.
C5_MalformedCountIsFatal ==
    Malformed(input) =>
        /\ pc = "failed"
        /\ err = "ValueError: could not convert string to float"
        /\ df = NoFrame /\ applies = NoMatrix
        /\ model = NoModel /\ fit_calls = <<>>
        /\ ~out.created

C5_Witness ==
    /\ Malformed(input) /\ pc = "failed"
    /\ \E i \in 1..Len(input) : input[i].applies = "1"

\* C6: in either mode a write that fails drops its line only: the run does
\* not end with that failure and a finished run has handled every job or
\* user.
C6_WriteFailureDropsOnlyLine ==
    faults < MaxFaults =>
        /\ err = ""
        /\ pc \in {"writing", "done"}
        /\ (pc = "done" => Len(calls) = Entities)

ALSNames == {"als", "nmslib_als", "annoy_als", "faiss_als"}

\* C7: in both modes model.fit receives the BM25-weighted matrix exactly when
\* the model name is als, nmslib_als, annoy_als or faiss_als, and then
\* approximate_recommend is False when fit is called; for every other
\* registry model fit receives the raw counts.
C7_WeightedIffALS ==
    \A i \in 1..Len(fit_calls) :
        /\ fit_calls[i].matrix.weight = "bm25" <=> args.model \in ALSNames
        /\ args.model \in ALSNames => fit_calls[i].approximate_recommend = "False"
        /\ args.model \notin ALSNames => fit_calls[i].matrix.weight = "raw"
        /\ fit_calls[i].matrix.fmt = "csr"

C7_Witness ==
    /\ Len(fit_calls) = 1
    /\ args.model = "faiss_als"
    /\ fit_calls[1].matrix.weight = "bm25"
    /\ fit_calls[1].approximate_recommend = "False"

\* the defaults with every key of the overrides replaced
Overridden(defaults, param) ==
    {kv \in defaults : \A i \in 1..Len(param) : param[i][1] # kv[1]}
    \cup Range(param)

\* C8: the model that is fitted has the variant's default parameters
\* overridden by the --param KEY=VALUE pairs.
C8_ParamsPassedThrough ==
    Len(fit_calls) > 0 =>
        model.params = Overridden(get_model(args.model).model.params, args.param)

RecsOfBlock(k) ==
    {p \in 1..Len(out.lines) : out.lines[p].kind = "rec" /\ SepsBefore(p) = k - 1}

\* C9: in recommendation mode the finished report has one marker line per
\* user, in ascending user-code order; every recommendation line of a user
\* stands before that user's marker and after the previous user's marker,
\* the recommendation lines in the order recommend returned them; every
\* history line stands after its user's marker and before the next user's
\* first recommendation line.
C9_BlocksInUserOrder ==
    (args.recommend /\ pc = "done") =>
        LET L == out.lines
            n == Len(df.user_cats)
        IN /\ Cardinality({p \in 1..Len(L) : L[p].kind = "sep"}) = n
           /\ Len(calls) = n
           /\ \A p \in 1..Len(L) :
                /\ L[p].kind = "sep" => L[p].a = df.user_cats[SepsBefore(p) + 1]
                /\ L[p].kind = "rec" =>
                      /\ SepsBefore(p) < n
                      /\ L[p].a = df.user_cats[SepsBefore(p) + 1]
                /\ L[p].kind = "hist" =>
                      /\ SepsBefore(p) >= 1
                      /\ \A q \in 1..(p - 1) :
                           L[q].kind = "rec" => SepsBefore(q) < SepsBefore(p)
           /\ \A k \in 1..n :
                /\ calls[k].q = k - 1
                /\ Cardinality(RecsOfBlock(k)) = Len(calls[k].result)
                /\ \A p \in RecsOfBlock(k) :
                     LET r == Cardinality({q \in RecsOfBlock(k) : q <= p})
                     IN L[p] = RecLine(df.user_cats[k],
                                       jobs[calls[k].result[r][1] + 1],
                                       calls[k].result[r][2])

C9_Witness ==
    /\ args.recommend /\ pc = "done"
    /\ Len(df.user_cats) = 2
    /\ model.depth = 2
    /\ Len(jobs) >= 2
    /\ Len(out.lines) >= 8

\* C10: read_data gives the jobs and the users codes that are contiguous from
\* 0 and in bijection with the distinct identifiers; the matrix it returns
\* has shape (distinct jobs x distinct users), every stored entry in the row
\* of its job's code and the column of its user's code, and at most as many
\* stored entries as the input has rows.
C10_CodesAndShape ==
    pc = "loaded" =>
        LET items == {input[i].job : i \in 1..Len(input)}
        IN /\ Len(df.job_cats) = Cardinality(items) /\ Range(df.job_cats) = items
           /\ Len(df.user_cats) = Cardinality(UsersOfInput)
           /\ Range(df.user_cats) = UsersOfInput
           /\ applies.shape = <<Cardinality(items), Cardinality(UsersOfInput)>>
           /\ Len(applies.ent) <= Len(input)
           /\ \A i \in 1..Len(applies.ent) :
                /\ applies.ent[i].row \in 0..(Cardinality(items) - 1)
                /\ applies.ent[i].col \in 0..(Cardinality(UsersOfInput) - 1)
                /\ df.job_cats[applies.ent[i].row + 1] = input[i].job
                /\ df.user_cats[applies.ent[i].col + 1] = input[i].user

C10_Witness ==
    /\ pc = "loaded"
    /\ Len(df.job_cats) = 3
    /\ Len(df.user_cats) = 2
    /\ applies.shape = <<3, 2>>

====
